---------------------------- MODULE Spec2Model ----------------------------
(***************************************************************************)
(* Model of examples/demo_diff_drive_self_calib.cpp: the driver loop that  *)
(* simulates a differential-drive robot, feeds four estimators (EKF, SEKF, *)
(* IEKF, UKFM) and compares them with an unfiltered dead-reckoning state.  *)
(*                                                                         *)
(* The driver is modelled statement by statement.  The loop variable t is  *)
(* an IEEE-754 double; it is modelled exactly, as an integer multiple of   *)
(* 2^-59 held in five 15-bit limbs, with round-to-nearest-even on every    *)
(* addition and multiplication.  The estimator and model classes of the    *)
(* library are not part of the driver's file; they are modelled from the   *)
(* specification over an integer abstraction of SE(2) x R^3.               *)
(***************************************************************************)
EXTENDS Integers, Sequences, FiniteSets, TLC

VARIABLES
  env,                \* the run's environment: iteration cap, noise supports, fault budget
  pc,                 \* position of main() inside the loop body
  k,                  \* number of loop increments executed so far (iteration index)
  t,                  \* the loop variable, a double (limbs of t * 2^59)
  X_simulation,       \* simulated true state
  X_unfiltered,       \* propagation-only state
  X_init,             \* perturbed initial estimate
  u_noisy,            \* noisy control rate
  u_simu, u_est, u_unfilt,   \* integrated controls
  measurements,       \* landmark measurements of the current simulation step
  y_gps,              \* position fix of the current iteration
  system_model,       \* the shared DiffDriveSystemModel
  measurement_models, \* the three landmark measurement models
  est,                \* the four estimators: state and covariance
  ei,                 \* index of the next estimator to be called in the current block
  li,                 \* loop variable i of the landmark update loop
  calls,              \* per estimator, the calls issued in the current iteration
  est0,               \* per estimator, its state at the start of the current iteration
  anyUpdate,          \* whether any update call has been issued in the run
  movedWith,          \* effective kinematics used by the simulator's latest move
  faultsLeft,         \* numeric failures the environment may still inject
  collected           \* the readouts handed to the collector

vars == << env, pc, k, t, X_simulation, X_unfiltered, X_init, u_noisy, u_simu,
           u_est, u_unfilt, measurements, y_gps, system_model,
           measurement_models, est, ei, li, calls, est0, anyUpdate,
           movedWith, faultsLeft, collected >>

-----------------------------------------------------------------------------
(* Bounds of the model *)

\* Iterations of the loop explored by the capped specifications.
MaxIter == 3

\* Numeric failures the environment may inject in SpecFault.
MaxFaults == 1

-----------------------------------------------------------------------------
(* Configuration constants of main() *)

control_freq == 100

landmark_freq == 50

gps_freq == 10

-----------------------------------------------------------------------------
(* IEEE-754 double arithmetic on the loop variable                         *)
(*                                                                         *)
(* A double d with 0 <= d < 256 that is a multiple of 2^-59 is held as the *)
(* integer d * 2^59, little-endian in five limbs of 15 bits.  dt = 1./100  *)
(* is the double 0x1.47ae147ae147bp-7 = 0x147AE147AE147B * 2^-59.          *)

Base == 2^15

Pow2(n) == 2^n

RECURSIVE Bits(_)
Bits(x) == IF x = 0 THEN 0 ELSE 1 + Bits(x \div 2)

\* Number of significant bits of a limb vector.
BitLen(a) ==
  IF a[5] # 0 THEN 60 + Bits(a[5])
  ELSE IF a[4] # 0 THEN 45 + Bits(a[4])
  ELSE IF a[3] # 0 THEN 30 + Bits(a[3])
  ELSE IF a[2] # 0 THEN 15 + Bits(a[2])
  ELSE Bits(a[1])

\* Carry propagation: limbs that may exceed Base are brought back below it.
Normalise(a) ==
  LET s1 == a[1]
      s2 == a[2] + s1 \div Base
      s3 == a[3] + s2 \div Base
      s4 == a[4] + s3 \div Base
      s5 == a[5] + s4 \div Base
  IN << s1 % Base, s2 % Base, s3 % Base, s4 % Base, s5 >>

\* Round an exact result to 53 significant bits, nearest, ties to even.
\* At most 21 low bits are dropped (results stay below 2^74), all of them
\* inside the two lowest limbs.
RoundDouble(a) ==
  LET n    == BitLen(a)
      d    == IF n > 53 THEN n - 53 ELSE 0
      low  == a[1] + Base * a[2]
      r    == low % Pow2(d)
      half == Pow2(d) \div 2
      up   == d > 0 /\ (r > half \/ (r = half /\ (low \div Pow2(d)) % 2 = 1))
      low2 == low - r + (IF up THEN Pow2(d) ELSE 0)
  IN Normalise(<< low2 % Base, low2 \div Base, a[3], a[4], a[5] >>)

\* a + b in double arithmetic.
DoubleAdd(a, b) ==
  RoundDouble(Normalise([i \in 1..5 |-> a[i] + b[i]]))

\* a * m in double arithmetic, m a small integer.
DoubleMul(a, m) ==
  RoundDouble(Normalise([i \in 1..5 |-> a[i] * m]))

\* int(a): truncation of a non-negative double, floor(a * 2^59 / 2^59).
DoubleToInt(a) == a[5] * 2 + a[4] \div 16384

\* The double 0.0.
DoubleZero == << 0, 0, 0, 0, 0 >>

\* constexpr double dt = 1./control_freq: the double nearest to 1/100.
dt == << 5243, 3932, 27525, 163, 0 >>

\* t < 240:  240 * 2^59 = 120 * 2^60.
LessThan240(a) == a[5] < 120

\* t > 120:  120 * 2^59 = 60 * 2^60.
GreaterThan120(a) ==
  \/ a[5] > 60
  \/ a[5] = 60 /\ (a[1] # 0 \/ a[2] # 0 \/ a[3] # 0 \/ a[4] # 0)

\* int(t*100) % int(100./landmark_freq) == 0
LandmarkGate(a) == DoubleToInt(DoubleMul(a, 100)) % (100 \div landmark_freq) = 0

\* int(t*100) % int(100./gps_freq) == 0
GpsGate(a) == DoubleToInt(DoubleMul(a, 100)) % (100 \div gps_freq) = 0

-----------------------------------------------------------------------------
(* Value domain                                                            *)
(*                                                                         *)
(* A state X = (pose, calib).  The pose is held in tangent coordinates     *)
(* (x, y, theta) composed additively (integers, 2.5e-8 m for x and y);     *)
(* calib holds the three calibration coefficients in units of 1e-3.        *)
(* Wheel radii and separation are in units of 1e-4 m, control rates in     *)
(* 5e-4 rad/s, integrated controls in 5e-4 rad, variances in 1e-5.         *)

Estimators == << "ekf", "sekf", "iekf", "ukfm" >>

EstimatorIds == { Estimators[i] : i \in 1..4 }

\* State::Identity(): identity pose, zero calibration block.
StateIdentity == [pose |-> << 0, 0, 0 >>, calib |-> << 0, 0, 0 >>]

\* X.element<1>().coeffs()(i) = v
SetCoeff(X, i, v) == [X EXCEPT !.calib[i + 1] = v]

\* Coefficient 1.
One == 1000

\* Coefficient 0.85.
Squeezed == 850

\* State X_simulation = State::Identity(); coefficients 0, 1, 2 set to 1.
X_simulation_0 ==
  SetCoeff(SetCoeff(SetCoeff(StateIdentity, 0, One), 1, One), 2, One)

\* u_nom << 0.5, 0.35
u_nom == << 1000, 700 >>

\* v * dt, dt = 1./control_freq.
TimesDt(v) == << v[1] \div control_freq, v[2] \div control_freq >>

\* Kinematics kinematic(0.15, 0.15, 0.4)
kinematic == << 1500, 1500, 4000 >>

\* U = diag(var_wheel, var_wheel), var_wheel = 9e-5.
U == 9

\* SystemModel system_model(kinematic); system_model.setCovariance(U);
system_model_0 == [kin |-> kinematic, Q |-> U]

\* R = diag(0.01^2, 0.01^2)
R == 10

\* R_gps = diag(var_gps, var_gps), var_gps = 6e-3.
R_gps == 600

\* The three landmark models: Landmark(2.0, 0.0), (2.0, 1.0), (2.0, -1.0).
measurement_models_0 ==
  << [kind |-> "landmark", b |-> << 80000000, 0 >>,         R |-> R],
     [kind |-> "landmark", b |-> << 80000000, 40000000 >>,  R |-> R],
     [kind |-> "landmark", b |-> << 80000000, -40000000 >>, R |-> R] >>

\* DummyGPSMeasurementModel<PoseSubState>(R_gps)
gps_measurement_model == [kind |-> "gps", b |-> << 0, 0 >>, R |-> R_gps]

\* state_cov_init: diag(0.1, 0.1, 0.17, 0.00001, 0.00001, 0.00001).
state_cov_init == << 10000, 10000, 17000, 1, 1, 1 >>

\* State X_init(PoseSubState(c0, c1, c2), c.tail<3>()) with
\* c = state_cov_init.cwiseSqrt() * n, c(3..5) += 1; p is the drawn
\* product sqrt(cov) * n in model units.
MakeX_init(p) ==
  [pose  |-> << p[1], p[2], p[3] >>,
   calib |-> << p[4] + One, p[5] + One, p[6] + One >>]

\* std::vector<Measurement> measurements(3): not yet written.
NoMeasurement == [val |-> << 0, 0 >>, gen |-> -1, from |-> StateIdentity, sensor |-> -1]

\* The time-step argument of a propagate call that passes none.
NoDt == << >>

-----------------------------------------------------------------------------
(* Library: system model, measurement models, estimators                   *)

\* Wheel radii and separation in effect: the nominal kinematics scaled by
\* the calibration coefficients of the state.
EffectiveKinematics(sm, X) ==
  << (sm.kin[1] * X.calib[1]) \div One,
     (sm.kin[2] * X.calib[2]) \div One,
     (sm.kin[3] * X.calib[3]) \div One >>

\* system_model(X, u): X (+) (dl, 0, dtheta), calibration block untouched.
\* x advances by 2*dl = rl*phi_l + rr*phi_r, theta by
\* (rr*phi_r - rl*phi_l) / dw (scaled by 100).
SystemModelApply(sm, X, u) ==
  LET e   == EffectiveKinematics(sm, X)
      dl2 == e[1] * u[1] + e[2] * u[2]
      dth == ((e[2] * u[2] - e[1] * u[1]) * 100) \div e[3]
  IN [X EXCEPT !.pose = << X.pose[1] + dl2, X.pose[2], X.pose[3] + dth >>]

\* The expectation h(P) of a measurement model on a pose.
Expectation(mm, pose) ==
  IF mm.kind = "landmark"
  THEN << mm.b[1] - pose[1], mm.b[2] - pose[2] >>
  ELSE << pose[1], pose[2] >>

\* MeasurementModelBundleWrapper{mm}(X): the model applied to element<0>.
MeasurementModelBundleWrapper(mm, X) == Expectation(mm, X.pose)

\* Sign of dh/dpose on the observed components.
JacobianSign(mm) == IF mm.kind = "landmark" THEN -1 ELSE 1

\* Process variance injected by one predict; a call that passes a time step
\* scales the installed rate by it.
ProcessVariance(sm, dtArg) ==
  IF dtArg = NoDt THEN sm.Q ELSE sm.Q \div control_freq

\* A predict call that detects a failure commits nothing.
PredictFailure(E, sm, u, dtArg) == E

\* estimator.propagate(system_model, u [, dt]): X <- f(X, u), P <- P + Q on
\* the pose block; on a detected failure the estimator is left as it was.
EstimatorPropagate(E, sm, u, dtArg, fail) ==
  IF fail THEN PredictFailure(E, sm, u, dtArg)
  ELSE LET q == ProcessVariance(sm, dtArg)
       IN [x |-> SystemModelApply(sm, E.x, u),
           P |-> << E.P[1] + q, E.P[2] + q, E.P[3] + q, E.P[4], E.P[5], E.P[6] >>]

\* Whether an update detects a failure: an injected numeric failure, a
\* measurement covariance that is not PSD, an innovation covariance that is
\* not positive.
UpdateFails(E, mm, fail) ==
  fail \/ mm.R < 0 \/ E.P[1] + mm.R <= 0 \/ E.P[2] + mm.R <= 0

\* The committed result of an update: residual r = y - h(X), S = P + R,
\* K = P H / S, X <- X (+) K r, P <- P R / S on the observed components.
UpdateCommit(E, mm, y) ==
  LET h  == MeasurementModelBundleWrapper(mm, E.x)
      sg == JacobianSign(mm)
      r1 == y[1] - h[1]
      r2 == y[2] - h[2]
      S1 == E.P[1] + mm.R
      S2 == E.P[2] + mm.R
  IN [x |-> [E.x EXCEPT !.pose = << E.x.pose[1] + (sg * E.P[1] * r1) \div S1,
                                    E.x.pose[2] + (sg * E.P[2] * r2) \div S2,
                                    E.x.pose[3] >>],
      P |-> << (E.P[1] * mm.R) \div S1, (E.P[2] * mm.R) \div S2,
               E.P[3], E.P[4], E.P[5], E.P[6] >>]

\* Faulty variant of the update: a detected failure still commits the mean.
EstimatorUpdate_partial(E, mm, y, fail) ==
  IF UpdateFails(E, mm, fail)
  THEN [x |-> UpdateCommit(E, mm, y).x, P |-> E.P]
  ELSE UpdateCommit(E, mm, y)

\* estimator.update(measurement_model, y)
EstimatorUpdate(E, mm, y, fail) ==
  IF UpdateFails(E, mm, fail) THEN E ELSE UpdateCommit(E, mm, y)

\* The value a call returns.
CallResult(failed) == IF failed THEN "error" ELSE "ok"


-----------------------------------------------------------------------------
(* Initial states                                                          *)

\* The environment of a run: whether the exploration caps the loop, the
\* supports of the random draws, and the numeric failures it may inject.
Environment(capped, uNoise, yNoise, gpsNoise, faults) ==
  [capped |-> capped, uNoise |-> uNoise, yNoise |-> yNoise,
   gpsNoise |-> gpsNoise, faults |-> faults]

\* EKF ekf; ekf.setState(X_init); ekf.setCovariance(state_cov_init);
\* SEKF sekf(X_init, state_cov_init); IEKF iekf(...); UKFM ukfm(...);
Construct(X, P) == [e \in EstimatorIds |-> [x |-> X, P |-> P]]

InitWith(environment, perturbations) ==
  /\ env = environment
  /\ pc = "noise"
  /\ k = 0
  /\ t = DoubleZero
  /\ X_simulation = X_simulation_0
  /\ X_unfiltered = X_simulation_0
  /\ X_init \in { MakeX_init(p) : p \in perturbations }
  /\ u_noisy = << 0, 0 >>
  /\ u_simu = << 0, 0 >>
  /\ u_est = << 0, 0 >>
  /\ u_unfilt = << 0, 0 >>
  /\ measurements = << NoMeasurement, NoMeasurement, NoMeasurement >>
  /\ y_gps = NoMeasurement
  /\ system_model = system_model_0
  /\ measurement_models = measurement_models_0
  /\ est = Construct(X_init, state_cov_init)
  /\ ei = 1
  /\ li = 0
  /\ calls = [e \in EstimatorIds |-> << >>]
  /\ est0 = est
  /\ anyUpdate = FALSE
  /\ movedWith = << 0, 0, 0 >>
  /\ faultsLeft = environment.faults
  /\ collected = << >>

\* Draws of sqrt(state_cov_init) * n: the unperturbed one and a perturbed one.
NoPerturbation == << 0, 0, 0, 0, 0, 0 >>

Perturbation == << 400, -300, 50, 3, -2, 1 >>

\* Supports of the control-rate noise and of the measurement noises.
ControlNoise == { << 0, 0 >>, << 100, -200 >> }

LandmarkNoise == { << 0, 0 >>, << 30, -20 >> }

GpsNoise == { << 0, 0 >>, << -500, 200 >> }

\* A capped exploration with random draws.
Init ==
  InitWith(Environment(TRUE, ControlNoise, LandmarkNoise, GpsNoise, 0),
           { NoPerturbation, Perturbation })

\* The environment of the whole run, 0 <= t < 240, along one draw of the
\* noises.
WholeRun == Environment(FALSE, { << 0, 0 >> }, { << 0, 0 >> }, { << 0, 0 >> }, 0)

\* The values of the program's variables.
ProgramState ==
  [pc |-> pc, k |-> k, t |-> t, X_simulation |-> X_simulation,
   X_unfiltered |-> X_unfiltered, X_init |-> X_init, u_noisy |-> u_noisy,
   u_simu |-> u_simu, u_est |-> u_est, u_unfilt |-> u_unfilt,
   measurements |-> measurements, y_gps |-> y_gps,
   system_model |-> system_model, measurement_models |-> measurement_models,
   est |-> est, ei |-> ei, li |-> li, calls |-> calls, est0 |-> est0,
   anyUpdate |-> anyUpdate, movedWith |-> movedWith,
   faultsLeft |-> faultsLeft, collected |-> collected]

\* The state in which the whole run enters iteration 11998 (t just below
\* 119.98), two iterations before t first exceeds 120.  The run from t = 0
\* reaches exactly this state (CheckpointOnRun).
Checkpoint ==
  LET sim  == [pose |-> << 305949000, 0, -1355774 >>, calib |-> << One, One, One >>]
      fix  == [pose |-> << 305770500, 0, -1354983 >>, calib |-> << One, One, One >>]
      init == MakeX_init(Perturbation)
      E    == [x |-> [pose |-> << 305949025, -1, -1367722 >>, calib |-> init.calib],
               P |-> << 11, 11, 124982, 1, 1, 1 >>]
      I    == [x |-> [pose |-> << 306176939, -1, -1367722 >>, calib |-> init.calib],
               P |-> << 0, 0, 17000, 1, 1, 1 >>]
      all  == [e \in EstimatorIds |-> IF e = "iekf" THEN I ELSE E]
      y(i) == [val    |-> << measurement_models_0[i].b[1] - sim.pose[1],
                             measurement_models_0[i].b[2] - sim.pose[2] >>,
               gen |-> 11997, from |-> sim, sensor |-> i - 1]
  IN [pc |-> "noise", k |-> 11998, t |-> << 8192, 25334, 10485, 32440, 59 >>,
      X_simulation |-> sim, X_unfiltered |-> sim, X_init |-> init,
      u_noisy |-> u_nom, u_simu |-> TimesDt(u_nom), u_est |-> TimesDt(u_nom),
      u_unfilt |-> TimesDt(u_nom),
      measurements |-> << y(1), y(2), y(3) >>,
      y_gps |-> [val |-> << fix.pose[1], fix.pose[2] >>, gen |-> 11990,
                 from |-> fix, sensor |-> 3],
      system_model |-> system_model_0,
      measurement_models |-> measurement_models_0,
      est |-> all, ei |-> 1, li |-> 0,
      calls |-> [e \in EstimatorIds |-> << >>], est0 |-> all,
      anyUpdate |-> TRUE, movedWith |-> kinematic, faultsLeft |-> 0,
      collected |-> << E.x, E.x, I.x, E.x, sim >>]

\* The whole run, from construction; the checkpoint on it is a second
\* starting point of the exploration, so that the states around t = 120 lie
\* a few steps from a starting point.
InitLong ==
  \/ InitWith(WholeRun, { Perturbation })
  \/ /\ env = WholeRun
     /\ pc = Checkpoint.pc
     /\ k = Checkpoint.k
     /\ t = Checkpoint.t
     /\ X_simulation = Checkpoint.X_simulation
     /\ X_unfiltered = Checkpoint.X_unfiltered
     /\ X_init = Checkpoint.X_init
     /\ u_noisy = Checkpoint.u_noisy
     /\ u_simu = Checkpoint.u_simu
     /\ u_est = Checkpoint.u_est
     /\ u_unfilt = Checkpoint.u_unfilt
     /\ measurements = Checkpoint.measurements
     /\ y_gps = Checkpoint.y_gps
     /\ system_model = Checkpoint.system_model
     /\ measurement_models = Checkpoint.measurement_models
     /\ est = Checkpoint.est
     /\ ei = Checkpoint.ei
     /\ li = Checkpoint.li
     /\ calls = Checkpoint.calls
     /\ est0 = Checkpoint.est0
     /\ anyUpdate = Checkpoint.anyUpdate
     /\ movedWith = Checkpoint.movedWith
     /\ faultsLeft = Checkpoint.faultsLeft
     /\ collected = Checkpoint.collected

\* The run from t = 0 enters iteration 11998 in the checkpoint state.
CheckpointOnRun ==
  (k = Checkpoint.k /\ pc = Checkpoint.pc) => ProgramState = Checkpoint

\* A capped exploration in which calls may detect a numeric failure.
InitFault ==
  InitWith(Environment(TRUE, { << 100, -200 >> }, { << 30, -20 >> },
                       { << -500, 200 >> }, MaxFaults),
           { Perturbation })

-----------------------------------------------------------------------------
(* The loop body of main()                                                 *)

\* Whether the call about to be issued detects a numeric failure.
FaultChoices == IF faultsLeft > 0 THEN BOOLEAN ELSE { FALSE }

\* Faulty variant: the estimators share the storage of their mean.
Commit_shared(e, E) ==
  [o \in EstimatorIds |-> IF o = e THEN E ELSE [est[o] EXCEPT !.x = E.x]]

\* A call on estimator e commits its result in that estimator object only.
Commit(e, E) == [est EXCEPT ![e] = E]

\* The record of one call: operation, arguments, returned value.
Call(op, model, u, dtArg, y, failed) ==
  [op |-> op, model |-> model, u |-> u, dt |-> dtArg, y |-> y,
   res |-> CallResult(failed)]

\* Faulty variant: the unfiltered state is driven by the noise-free control.
UnfilteredControl_nominal(noisy) == TimesDt(u_nom)

\* u_unfilt = u_noisy * dt
UnfilteredControl(noisy) == TimesDt(noisy)

\* u_noise = randn(...); u_noisy = u_nom + u_noise;
\* u_simu = u_nom * dt; u_est = u_noisy * dt; u_unfilt = u_noisy * dt;
SimulateNoise ==
  /\ pc = "noise"
  /\ \E u_noise \in env.uNoise :
       /\ u_noisy' = << u_nom[1] + u_noise[1], u_nom[2] + u_noise[2] >>
       /\ u_simu' = TimesDt(u_nom)
       /\ u_est' = TimesDt(u_noisy')
       /\ u_unfilt' = UnfilteredControl(u_noisy')
  /\ pc' = "change"
  /\ UNCHANGED << env, k, t, X_simulation, X_unfiltered, X_init, measurements,
                  y_gps, system_model, measurement_models, est, ei, li, calls,
                  est0, anyUpdate, movedWith, faultsLeft, collected >>

\* Faulty variant: the jump is also written into the EKF's state.
ModelChange_estimator ==
  /\ pc = "change"
  /\ X_simulation' =
       IF GreaterThan120(t)
       THEN SetCoeff(SetCoeff(SetCoeff(X_simulation, 0, Squeezed), 1, Squeezed), 2, One)
       ELSE X_simulation
  /\ est' =
       IF GreaterThan120(t)
       THEN [est EXCEPT !["ekf"].x =
               SetCoeff(SetCoeff(SetCoeff(@, 0, Squeezed), 1, Squeezed), 2, One)]
       ELSE est
  /\ pc' = "move"
  /\ UNCHANGED << env, k, t, X_unfiltered, X_init, u_noisy, u_simu, u_est,
                  u_unfilt, measurements, y_gps, system_model,
                  measurement_models, ei, li, calls, est0, anyUpdate,
                  movedWith, faultsLeft, collected >>

\* Faulty variant: the jump squeezes the wheel separation as well.
ModelChange_separation ==
  /\ pc = "change"
  /\ X_simulation' =
       IF GreaterThan120(t)
       THEN SetCoeff(SetCoeff(SetCoeff(X_simulation, 0, Squeezed), 1, Squeezed), 2, Squeezed)
       ELSE X_simulation
  /\ pc' = "move"
  /\ UNCHANGED << env, k, t, X_unfiltered, X_init, u_noisy, u_simu, u_est,
                  u_unfilt, measurements, y_gps, system_model,
                  measurement_models, est, ei, li, calls, est0, anyUpdate,
                  movedWith, faultsLeft, collected >>

\* if (t > 120) { coeffs(0) = 0.85; coeffs(1) = 0.85; coeffs(2) = 1; }
ModelChange ==
  /\ pc = "change"
  /\ X_simulation' =
       IF GreaterThan120(t)
       THEN SetCoeff(SetCoeff(SetCoeff(X_simulation, 0, Squeezed), 1, Squeezed), 2, One)
       ELSE X_simulation
  /\ pc' = "move"
  /\ UNCHANGED << env, k, t, X_unfiltered, X_init, u_noisy, u_simu, u_est,
                  u_unfilt, measurements, y_gps, system_model,
                  measurement_models, est, ei, li, calls, est0, anyUpdate,
                  movedWith, faultsLeft, collected >>

\* X_simulation = system_model(X_simulation, u_simu);
SimulatorMove ==
  /\ pc = "move"
  /\ X_simulation' = SystemModelApply(system_model, X_simulation, u_simu)
  /\ movedWith' = EffectiveKinematics(system_model, X_simulation)
  /\ pc' = "measure"
  /\ UNCHANGED << env, k, t, X_unfiltered, X_init, u_noisy, u_simu, u_est,
                  u_unfilt, measurements, y_gps, system_model,
                  measurement_models, est, ei, li, calls, est0, anyUpdate,
                  faultsLeft, collected >>

\* Faulty variant: the measuring loop stops one landmark short.
MeasuredLandmarks_short == 1..(Len(measurement_models) - 1)

\* The landmarks measured by the loop  for (i = 0; i < size(); ++i).
MeasuredLandmarks == 1..Len(measurement_models)

\* y = Wrapper{measurement_models[i]}(X_simulation) + y_noise;
\* measurements[i] = y;   for every landmark i
MeasureLandmarks ==
  /\ pc = "measure"
  /\ \E y_noise \in [MeasuredLandmarks -> env.yNoise] :
       measurements' =
         [i \in 1..Len(measurements) |->
            IF i \in MeasuredLandmarks
            THEN LET h == MeasurementModelBundleWrapper(measurement_models[i], X_simulation)
                 IN [val    |-> << h[1] + y_noise[i][1], h[2] + y_noise[i][2] >>,
                     gen    |-> k,
                     from   |-> X_simulation,
                     sensor |-> i - 1]
            ELSE measurements[i]]
  /\ pc' = "propagate"
  /\ ei' = 1
  /\ UNCHANGED << env, k, t, X_simulation, X_unfiltered, X_init, u_noisy,
                  u_simu, u_est, u_unfilt, y_gps, system_model,
                  measurement_models, est, li, calls, est0, anyUpdate,
                  movedWith, faultsLeft, collected >>

\* Faulty variant: the SEKF is propagated with the simulator's control.
PropagateArgs_simu(e) ==
  [u |-> IF e = "sekf" THEN u_simu ELSE u_est,
   dt |-> IF e = "iekf" THEN dt ELSE NoDt]

\* The control and the time step each estimator's propagate is called with:
\* ekf, sekf, ukfm .propagate(system_model, u_est);
\* iekf.propagate(system_model, u_est, dt);
PropagateArgs(e) ==
  [u |-> u_est, dt |-> IF e = "iekf" THEN dt ELSE NoDt]

\* One of the four propagate calls, in the order ekf, sekf, iekf, ukfm.
Propagate ==
  /\ pc = "propagate"
  /\ LET e == Estimators[ei]
         a == PropagateArgs(e)
     IN \E fail \in FaultChoices :
          /\ est' = Commit(e, EstimatorPropagate(est[e], system_model, a.u, a.dt, fail))
          /\ calls' = [calls EXCEPT ![e] =
                         Append(@, Call("propagate", system_model, a.u, a.dt,
                                        NoMeasurement, fail))]
          /\ faultsLeft' = IF fail THEN faultsLeft - 1 ELSE faultsLeft
  /\ IF ei < Len(Estimators)
     THEN ei' = ei + 1 /\ pc' = "propagate"
     ELSE ei' = 1 /\ pc' = "unfiltered"
  /\ UNCHANGED << env, k, t, X_simulation, X_unfiltered, X_init, u_noisy,
                  u_simu, u_est, u_unfilt, measurements, y_gps, system_model,
                  measurement_models, li, est0, anyUpdate, movedWith,
                  collected >>

\* Where main() continues once the landmark block is over:
\* if (int(t*100) % int(100./gps_freq) == 0) { ... }
AfterLandmarks == IF GpsGate(t) THEN "gpsmeasure" ELSE "results"

\* X_unfiltered = system_model(X_unfiltered, u_unfilt);
\* then  if (int(t*100) % int(100./landmark_freq) == 0) { ... }
MoveUnfiltered ==
  /\ pc = "unfiltered"
  /\ X_unfiltered' = SystemModelApply(system_model, X_unfiltered, u_unfilt)
  /\ pc' = IF LandmarkGate(t) THEN "landmark" ELSE AfterLandmarks
  /\ li' = 0
  /\ ei' = 1
  /\ UNCHANGED << env, k, t, X_simulation, X_init, u_noisy, u_simu, u_est,
                  u_unfilt, measurements, y_gps, system_model,
                  measurement_models, est, calls, est0, anyUpdate, movedWith,
                  faultsLeft, collected >>

\* Faulty variant: the update loop skips every other landmark.
LandmarkLoopStep_skip(i) == i + 2

\* ++i of the landmark update loop.
LandmarkLoopStep(i) == i + 1

\* One of the four update calls of landmark i = li:
\* auto measurement_model = measurement_models[i]; y = measurements[i];
\* estimator.update(MeasurementModelBundleWrapper{measurement_model}, y);
UpdateLandmark ==
  /\ pc = "landmark"
  /\ LET e  == Estimators[ei]
         mm == measurement_models[li + 1]
         y  == measurements[li + 1]
     IN \E fail \in FaultChoices :
          /\ est' = Commit(e, EstimatorUpdate(est[e], mm, y.val, fail))
          /\ calls' = [calls EXCEPT ![e] =
                         Append(@, Call("update", mm, << >>, NoDt, y,
                                        UpdateFails(est[e], mm, fail)))]
          /\ faultsLeft' = IF fail THEN faultsLeft - 1 ELSE faultsLeft
  /\ anyUpdate' = TRUE
  /\ IF ei < Len(Estimators)
     THEN ei' = ei + 1 /\ li' = li /\ pc' = "landmark"
     ELSE /\ ei' = 1
          /\ li' = LandmarkLoopStep(li)
          /\ pc' = IF li' < Len(measurement_models) THEN "landmark" ELSE AfterLandmarks
  /\ UNCHANGED << env, k, t, X_simulation, X_unfiltered, X_init, u_noisy,
                  u_simu, u_est, u_unfilt, measurements, y_gps, system_model,
                  measurement_models, est0, movedWith, collected >>

\* y_gps = Wrapper{gps_measurement_model}(X_simulation) + y_gps_noise;
MeasureGps ==
  /\ pc = "gpsmeasure"
  /\ \E y_gps_noise \in env.gpsNoise :
       LET h == MeasurementModelBundleWrapper(gps_measurement_model, X_simulation)
       IN y_gps' = [val    |-> << h[1] + y_gps_noise[1], h[2] + y_gps_noise[2] >>,
                    gen    |-> k,
                    from   |-> X_simulation,
                    sensor |-> Len(measurement_models)]
  /\ pc' = "gps"
  /\ ei' = 1
  /\ UNCHANGED << env, k, t, X_simulation, X_unfiltered, X_init, u_noisy,
                  u_simu, u_est, u_unfilt, measurements, system_model,
                  measurement_models, est, li, calls, est0, anyUpdate,
                  movedWith, faultsLeft, collected >>

\* One of the four calls  estimator.update(Wrapper{gps_measurement_model}, y_gps);
UpdateGps ==
  /\ pc = "gps"
  /\ LET e == Estimators[ei]
     IN \E fail \in FaultChoices :
          /\ est' = Commit(e, EstimatorUpdate(est[e], gps_measurement_model,
                                              y_gps.val, fail))
          /\ calls' = [calls EXCEPT ![e] =
                         Append(@, Call("update", gps_measurement_model, << >>,
                                        NoDt, y_gps,
                                        UpdateFails(est[e], gps_measurement_model, fail)))]
          /\ faultsLeft' = IF fail THEN faultsLeft - 1 ELSE faultsLeft
  /\ anyUpdate' = TRUE
  /\ IF ei < Len(Estimators)
     THEN ei' = ei + 1 /\ pc' = "gps"
     ELSE ei' = 1 /\ pc' = "results"
  /\ UNCHANGED << env, k, t, X_simulation, X_unfiltered, X_init, u_noisy,
                  u_simu, u_est, u_unfilt, measurements, y_gps, system_model,
                  measurement_models, li, est0, movedWith, collected >>

\* estimator.getState()
GetState(e) == est[e].x

\* auto X_e = ekf.getState(); ... collector.collect(...) for the four
\* estimators and for X_unfiltered.
Results ==
  /\ pc = "results"
  /\ collected' = << GetState("ekf"), GetState("sekf"), GetState("iekf"),
                     GetState("ukfm"), X_unfiltered >>
  /\ pc' = "increment"
  /\ UNCHANGED << env, k, t, X_simulation, X_unfiltered, X_init, u_noisy,
                  u_simu, u_est, u_unfilt, measurements, y_gps, system_model,
                  measurement_models, est, ei, li, calls, est0, anyUpdate,
                  movedWith, faultsLeft >>

\* for (...; t < 240; t += dt); the records of the iteration's calls start
\* afresh.
LoopIncrement ==
  /\ pc = "increment"
  /\ env.capped => k + 1 < MaxIter
  /\ t' = DoubleAdd(t, dt)
  /\ k' = k + 1
  /\ pc' = IF LessThan240(t') THEN "noise" ELSE "done"
  /\ calls' = [e \in EstimatorIds |-> << >>]
  /\ est0' = est
  /\ UNCHANGED << env, X_simulation, X_unfiltered, X_init, u_noisy, u_simu,
                  u_est, u_unfilt, measurements, y_gps, system_model,
                  measurement_models, est, ei, li, anyUpdate, movedWith,
                  faultsLeft, collected >>

Next ==
  \/ SimulateNoise
  \/ ModelChange
  \/ SimulatorMove
  \/ MeasureLandmarks
  \/ Propagate
  \/ MoveUnfiltered
  \/ UpdateLandmark
  \/ MeasureGps
  \/ UpdateGps
  \/ Results
  \/ LoopIncrement

Spec == Init /\ [][Next]_vars

SpecLong == InitLong /\ [][Next]_vars

SpecFault == InitFault /\ [][Next]_vars


-----------------------------------------------------------------------------
(* Properties                                                              *)

\* The simulator's move of the current iteration has been made.
Moved ==
  pc \in { "measure", "propagate", "unfiltered", "landmark", "gpsmeasure",
           "gps", "results", "increment" }

\* The estimation section of the current iteration is over.
IterationOver == pc \in { "results", "increment" }

IsLandmarkUpdate(c) == c.op = "update" /\ c.model.kind = "landmark"

IsGpsUpdate(c) == c.op = "update" /\ c.model.kind = "gps"

\* The calls issued to e in the current iteration that satisfy Test.
CallsWhere(e, Test(_)) == { i \in 1..Len(calls[e]) : Test(calls[e][i]) }

\* The kind of a call: the predict, the update of landmark 0, 1 or 2, or
\* the position-fix update.
CallTag(c) ==
  IF c.op = "propagate" THEN "P"
  ELSE IF c.model = gps_measurement_model THEN "G"
  ELSE IF c.model = measurement_models[1] THEN "L0"
  ELSE IF c.model = measurement_models[2] THEN "L1"
  ELSE "L2"

Tags(e) == [i \in 1..Len(calls[e]) |-> CallTag(calls[e][i])]

IsPrefix(a, b) == Len(a) <= Len(b) /\ \A i \in 1..Len(a) : a[i] = b[i]

\* C1: on the base grid, iteration k applies the landmark updates exactly
\* when k mod 2 = 0 and the position-fix update exactly when k mod 10 = 0;
\* in every other iteration no update of that kind reaches any estimator.
C1_ScheduleOnGrid ==
  \A e \in EstimatorIds :
    /\ CallsWhere(e, IsLandmarkUpdate) # {} => k % 2 = 0
    /\ CallsWhere(e, IsGpsUpdate) # {} => k % 10 = 0
    /\ IterationOver /\ k % 2 = 0 =>
         Cardinality(CallsWhere(e, IsLandmarkUpdate)) = Len(measurement_models)
    /\ IterationOver /\ k % 10 = 0 =>
         Cardinality(CallsWhere(e, IsGpsUpdate)) = 1

\* C2: the step that fires when t > 120 writes the calibration block of
\* X_simulation only: the four estimators, X_unfiltered, the system model
\* and the measurement models are left as they were.
C2_JumpOnlyInSimulator ==
  [][ (pc = "change" /\ GreaterThan120(t)) =>
        /\ X_simulation'.calib = << Squeezed, Squeezed, One >>
        /\ X_simulation'.pose = X_simulation.pose
        /\ est' = est
        /\ X_unfiltered' = X_unfiltered
        /\ system_model' = system_model
        /\ measurement_models' = measurement_models ]_vars

\* The state right after the first jump: the calibration is squeezed, the
\* latest move was still made with the nominal kinematics.
C2_Witness ==
  /\ pc = "move"
  /\ GreaterThan120(t)
  /\ X_simulation.calib = << Squeezed, Squeezed, One >>
  /\ movedWith = kinematic

\* The calls an estimator receives in an iteration whose loop variable is a.
ExpectedCalls(a) ==
  << "P" >> \o (IF LandmarkGate(a) THEN << "L0", "L1", "L2" >> ELSE << >>)
            \o (IF GpsGate(a) THEN << "G" >> ELSE << >>)

\* C3: for each estimator the calls of an iteration are, in this order, one
\* predict, then the landmark updates 0, 1, 2 when scheduled, then the
\* position-fix update when scheduled; no update precedes the predict.
C3_CallOrder ==
  \A e \in EstimatorIds :
    /\ IsPrefix(Tags(e), ExpectedCalls(t))
    /\ IterationOver => Tags(e) = ExpectedCalls(t)
    /\ pc \in { "unfiltered", "landmark", "gpsmeasure", "gps" } =>
         Len(calls[e]) >= 1

\* An iteration in which an estimator received the predict, the three
\* landmark updates and the position fix.
C3_Witness ==
  /\ pc = "results"
  /\ Tags("ukfm") = << "P", "L0", "L1", "L2", "G" >>

BeforeFirstUpdate ==
  /\ ~anyUpdate
  /\ pc \in { "landmark", "gpsmeasure", "gps", "results", "increment" }

RECURSIVE Replay(_, _)
Replay(E, log) ==
  IF log = << >> THEN E
  ELSE LET c == Head(log)
       IN Replay(IF c.op = "propagate"
                 THEN EstimatorPropagate(E, c.model, c.u, c.dt, c.res = "error")
                 ELSE EstimatorUpdate(E, c.model, c.y.val, c.res = "error"),
                 Tail(log))

C9_FreshSingleUse ==
  \A e \in EstimatorIds :
    \A i \in 1..Len(calls[e]) :
      calls[e][i].op = "update" =>
        /\ Moved
        /\ calls[e][i].y.gen = k
        /\ calls[e][i].y.from = X_simulation
        /\ \A j \in 1..Len(calls[e]) :
             (j # i /\ calls[e][j].op = "update") =>
               calls[e][j].y.sensor # calls[e][i].y.sensor

\* A later iteration in which the landmark measurements were absorbed.
C9_Witness ==
  /\ pc = "results"
  /\ k = 2
  /\ Cardinality(CallsWhere("sekf", IsLandmarkUpdate)) = 3

\* The arguments of a call.
Args(c) == [op |-> c.op, model |-> c.model, u |-> c.u, dt |-> c.dt, y |-> c.y.val]

\* The arguments of a call other than the time step.
ArgsButDt(c) == [op |-> c.op, model |-> c.model, u |-> c.u, y |-> c.y.val]

\* Nothing has been issued to any estimator yet.
Constructed == k = 0 /\ pc \in { "noise", "change", "move", "measure" }

\* C10 as stated: the four estimators start from (X_init, state_cov_init)
\* and receive, call by call, the same arguments, time step included.
C10_IdenticalInputs ==
  /\ Constructed => est = Construct(X_init, state_cov_init)
  /\ \A e1, e2 \in EstimatorIds :
       \A i \in 1..Len(calls[e1]) :
         i <= Len(calls[e2]) => Args(calls[e1][i]) = Args(calls[e2][i])

\* C10, amended: the four estimators start from (X_init, state_cov_init)
\* and receive, call by call, the same system model, control, measurement
\* model and measurement; the time step dt is passed to the IEKF's predict
\* only.
C10_IdenticalButTimeStep ==
  /\ Constructed => est = Construct(X_init, state_cov_init)
  /\ \A e1, e2 \in EstimatorIds :
       \A i \in 1..Len(calls[e1]) :
         i <= Len(calls[e2]) => ArgsButDt(calls[e1][i]) = ArgsButDt(calls[e2][i])
  /\ \A e \in EstimatorIds :
       \A i \in 1..Len(calls[e]) :
         /\ calls[e][i].op = "propagate" =>
              /\ calls[e][i].u = u_est
              /\ calls[e][i].model = system_model
         /\ calls[e][i].dt = (IF e = "iekf" /\ calls[e][i].op = "propagate"
                              THEN dt ELSE NoDt)

\* The end of an iteration in which all four estimators received five calls
\* under a noisy control.
C10_Witness ==
  /\ pc = "results"
  /\ u_noisy # u_nom
  /\ \A e \in EstimatorIds : Len(calls[e]) = 5
  /\ calls["iekf"][1].dt = dt
  /\ calls["ekf"][1].dt = NoDt


=============================================================================
